---- MODULE Spec2Model ----
(***************************************************************************)
(* A model of shell-mcp-server: the allow-list configuration               *)
(* (shell_mcp_server/config.py, class Settings) and the command gateway    *)
(* (shell_mcp_server/server.py: run_shell_command, call_tool, list_tools). *)
(*                                                                         *)
(* Paths.  A path is text: a sequence of one-character strings.            *)
(* os.path.abspath is modelled by what it does on POSIX: join a relative   *)
(* path to the process's working directory, split the text at "/", fold    *)
(* the components lexically (empty and "." dropped, ".." pops, ".." at the *)
(* root dropped), and print the result as text again.  It reads no file    *)
(* system: a symbolic link is a name like any other to it.                 *)
(***************************************************************************)
EXTENDS Integers, Sequences, FiniteSets, TLC

\* ------------------------------------------------------------- bounds ---
\* Longest path (in components) handed to is_path_allowed.
MaxDepth == 2
\* Longest directory (in components) handed to Settings.__init__.
MaxDirDepth == 1
\* Longest list of directories handed to Settings.__init__.
MaxDirs == 2

\* --------------------------------------------------------- path texts ---
NameP == <<"p">>
NameP2 == <<"p", "2">>
NameL == <<"l">>
Dot == <<".">>
DotDot == <<".", ".">>
Names == {NameP, NameP2, NameL}
\* The components paths are built of here: names and "..".
Components == Names \cup {DotDot}

RECURSIVE SeqsUpTo(_, _)
SeqsUpTo(S, n) ==
    IF n = 0 THEN {<<>>}
    ELSE LET shorter == SeqsUpTo(S, n - 1)
         IN  shorter \cup {Append(s, x) : s \in {t \in shorter : Len(t) = n - 1}, x \in S}

Front(s) == SubSeq(s, 1, Len(s) - 1)

\* The path texts of at most n components: absolute ("/" first) and relative.
RECURSIVE join(_)
join(comps) ==
    IF comps = <<>> THEN <<>>
    ELSE IF Len(comps) = 1 THEN comps[1]
    ELSE join(Front(comps)) \o <<"/">> \o comps[Len(comps)]

PathsUpTo(n) ==
    {join(c) : c \in SeqsUpTo(Components, n)}
        \cup {<<"/">> \o join(c) : c \in SeqsUpTo(Components, n)}

\* os.getcwd() of the server process: "/p".
Getcwd == <<"/", "p">>

\* str.split("/") from position i on, cur being the component read so far.
RECURSIVE split(_, _, _)
split(s, i, cur) ==
    IF i > Len(s) THEN <<cur>>
    ELSE IF s[i] = "/" THEN <<cur>> \o split(s, i + 1, <<>>)
    ELSE split(s, i + 1, Append(cur, s[i]))

\* The loop of posixpath.normpath over the components of an absolute path.
RECURSIVE normpath(_, _)
normpath(new_comps, comps) ==
    IF comps = <<>> THEN new_comps
    ELSE LET comp == Head(comps)
         IN  IF comp = <<>> \/ comp = Dot THEN normpath(new_comps, Tail(comps))
             ELSE IF comp # DotDot THEN normpath(Append(new_comps, comp), Tail(comps))
             ELSE IF new_comps # <<>> THEN normpath(Front(new_comps), Tail(comps))
             ELSE normpath(new_comps, Tail(comps))

\* The text of an absolute normalized path: "/" and its components joined by "/".
PathText(comps) == <<"/">> \o join(comps)

\* The components os.path.abspath(path) leaves: normpath(join(getcwd(), path)).
abspath_comps(path) ==
    LET isabs == path # <<>> /\ path[1] = "/"
        joined == IF isabs THEN path ELSE Getcwd \o <<"/">> \o path
    IN  normpath(<<>>, split(joined, 1, <<>>))

\* os.path.abspath(path), as text.
abspath(path) == PathText(abspath_comps(path))

\* str.startswith
startswith(s, prefix) ==
    /\ Len(prefix) <= Len(s)
    /\ SubSeq(s, 1, Len(prefix)) = prefix

\* ------------------------------------------------------------- state ---
VARIABLES
    settings,   \* the Settings object: ALLOWED_DIRECTORIES, ALLOWED_SHELLS, COMMAND_TIMEOUT
    platform,   \* sys.platform of the host
    checked,    \* the last direct call of Settings.is_path_allowed: <<[path, result]>>, or <<>>
    pc,         \* per call: where its coroutine stands
    request,    \* per call: [name, arguments, types] as handed to call_tool
    proc,       \* per call: the subprocess it spawned
    returned,   \* per call: the values run_shell_command returned
    raised,     \* per call: the exceptions run_shell_command raised
    response,   \* per call: what call_tool returned to the transport
    escaped,    \* per call: the exceptions call_tool itself raised
    elapsed     \* per call: seconds since wait_for set its timer

vars ==
    <<settings, platform, checked, pc, request, proc, returned, raised, response,
      escaped, elapsed>>

\* ---------------------------------------------------------- Settings ---
\* A dict is a sequence of [key, value] entries in insertion order.
keys(dict) == [i \in DOMAIN dict |-> dict[i].key]
contains(dict, k) == \E i \in DOMAIN dict : dict[i].key = k
getitem(dict, k) == dict[CHOOSE i \in DOMAIN dict : dict[i].key = k].value

\* Settings.COMMAND_TIMEOUT's default, in seconds.
COMMAND_TIMEOUT == 30

\* Settings.__init__(directories, shells)
Settings__init__(directories, shells) ==
    [ALLOWED_DIRECTORIES |-> [i \in DOMAIN directories |-> abspath(directories[i])],
     ALLOWED_SHELLS |-> shells,
     COMMAND_TIMEOUT |-> COMMAND_TIMEOUT]

\* Settings.is_path_allowed(path), with startswith replaced by equality.
is_path_allowed_eq(self, path) ==
    LET abs_path == abspath(path)
    IN  \E i \in DOMAIN self.ALLOWED_DIRECTORIES :
            abs_path = self.ALLOWED_DIRECTORIES[i]

\* Settings.is_path_allowed(path)
is_path_allowed(self, path) ==
    LET abs_path == abspath(path)
    IN  \E i \in DOMAIN self.ALLOWED_DIRECTORIES :
            startswith(abs_path, self.ALLOWED_DIRECTORIES[i])

\* --------------------------------------------------- requests, shells ---
\* Calls in flight at once, numbered in order of arrival.
MaxCalls == 1
Calls == 1 .. MaxCalls

Platforms == {"linux", "win32"}

\* The shells of the module-level Settings(...) under pytest, and parse_args'
\* defaults on Windows.
TestShells == <<[key |-> "bash", value |-> "/bin/bash"]>>
WindowsShells ==
    <<[key |-> "cmd", value |-> "cmd.exe"],
      [key |-> "powershell", value |-> "powershell.exe"]>>
ShellConfigs == {TestShells, WindowsShells}

\* The directories the server is started with: "/p".
StartupDirectories == <<<<"/", "p">>>>

ToolNames == {"execute_command", "read_file"}
ShellNames == {"bash", "cmd", "powershell", "invalid_shell"}
Commands == {"cat test.txt", "sleep 10"}
CwdInputs == {<<"/", "p">>, <<"/", "l">>}
Arguments == [command : Commands, shell : ShellNames, cwd : CwdInputs]

\* The fields call_tool reads from `arguments`, in the order it reads them.
Fields == <<"command", "shell", "cwd">>

\* Each value of `arguments` is a JSON value with its Python type beside it:
\* "str" for a string, "int" for a number.  The number 42 is written as str()
\* prints it, in the field cwd character by character as the paths are.
AllStr == [command |-> "str", shell |-> "str", cwd |-> "str"]
Number(f) == IF f = "cwd" THEN <<"4", "2">> ELSE "42"

\* The dict d without the key k.
Without(d, k) == [f \in DOMAIN d \ {k} |-> d[f]]

\* ------------------------------------------------ exceptions and text ---
\* A text is a sequence of pieces, printed one after the other.  An
\* exception is its class and its message, the text str(e) gives.
Exc(type, message) == [type |-> type, message |-> message]
str(e) == e.message

DirectoryError(cwd) ==
    Exc("ValueError", <<"Directory '", cwd, "' is not in the allowed directories list">>)
ShellError(shell, names) ==
    Exc("ValueError", <<"Shell '", shell, "' is not allowed. Available shells: ", names>>)
\* arguments[k] for a key that is absent.
KeyError(k) == Exc("KeyError", <<"'", k, "'">>)

\* os.fspath of a value that is no path: what os.path.abspath and the launch
\* raise for a number.
FspathError ==
    Exc("TypeError", <<"expected str, bytes or os.PathLike object, not int">>)

TimedOutError(seconds) ==
    Exc("TimeoutError", <<"Command execution timed out after ", seconds, " seconds">>)

\* What create_subprocess_exec can raise: the executable is missing, not
\* executable, or on a mount that timed out (errno ETIMEDOUT, which Python
\* raises as the builtin TimeoutError).
LaunchErrors ==
    {Exc("FileNotFoundError", <<"[Errno 2] No such file or directory">>),
     Exc("PermissionError", <<"[Errno 13] Permission denied">>),
     Exc("TimeoutError", <<"[Errno 110] Connection timed out">>)}

\* os.kill on a process that changed its user id.
KillError == Exc("PermissionError", <<"[Errno 1] Operation not permitted">>)

\* The outcome of a coroutine: it returns a value or raises an exception.
Return(value) == [kind |-> "return", value |-> value]
Raise(e) == [kind |-> "raise", value |-> e]

\* ------------------------------------------------- run_shell_command ---
\* Lines 74-78 skipping the directory check.
policy_check_no_directory(self, shell, cwd) ==
    IF ~contains(self.ALLOWED_SHELLS, shell)
    THEN <<ShellError(shell, keys(self.ALLOWED_SHELLS))>>
    ELSE <<>>

\* Lines 74-78 listing the shells the tests start with, not the current ones.
policy_check_stale_names(self, shell, cwd) ==
    IF ~is_path_allowed(self, cwd) THEN <<DirectoryError(cwd)>>
    ELSE IF ~contains(self.ALLOWED_SHELLS, shell)
    THEN <<ShellError(shell, keys(TestShells))>>
    ELSE <<>>

\* Lines 74-78 in the other order: the shell is looked up first.
policy_check_shell_first(self, shell, cwd) ==
    IF ~contains(self.ALLOWED_SHELLS, shell)
    THEN <<ShellError(shell, keys(self.ALLOWED_SHELLS))>>
    ELSE IF ~is_path_allowed(self, cwd) THEN <<DirectoryError(cwd)>>
    ELSE <<>>

\* The two policy checks: the exception raised, if any.
policy_check(self, shell, cwd) ==
    IF ~is_path_allowed(self, cwd) THEN <<DirectoryError(cwd)>>
    ELSE IF ~contains(self.ALLOWED_SHELLS, shell)
    THEN <<ShellError(shell, keys(self.ALLOWED_SHELLS))>>
    ELSE <<>>

\* Lines 74-78 for values of any type: os.path.abspath raises TypeError for
\* a cwd that is no string; a shell that is no string is no key of the map.
policy_check_typed(self, arguments, types) ==
    IF types.cwd # "str" THEN <<FspathError>>
    ELSE IF types.shell # "str"
    THEN IF ~is_path_allowed(self, arguments.cwd)
         THEN <<DirectoryError(arguments.cwd)>>
         ELSE <<ShellError(arguments.shell, keys(self.ALLOWED_SHELLS))>>
    ELSE policy_check(self, arguments.shell, arguments.cwd)

\* The invocation vector.
shell_cmd(sys_platform, shell, shell_path, command) ==
    IF sys_platform = "win32"
    THEN IF shell = "cmd" THEN <<shell_path, "/c", command>>
         ELSE <<shell_path, "-Command", command>>
    ELSE <<shell_path, "-c", command>>

\* The dict returned on success.
CommandResult(stdout, stderr, exit_code, command, shell, cwd) ==
    [stdout |-> stdout, stderr |-> stderr, exit_code |-> exit_code,
     command |-> command, shell |-> shell, cwd |-> cwd]

\* The outer handlers without "except Exception".
outer_except_all_hard(e, command, shell, cwd) == Raise(e)

\* The outer handlers: a TimeoutError is raised again, any other exception
\* becomes the result with exit code -1.
outer_except(e, command, shell, cwd) ==
    IF e.type = "TimeoutError" THEN Raise(e)
    ELSE Return(CommandResult(<<>>, str(e), -1, command, shell, cwd))

\* --------------------------------------------------------- processes ---
\* returncode is <<>> for None, <<n>> once the exit status has been collected.
NoProcess ==
    [state |-> "none", returncode |-> <<>>, pipes |-> "none", killed |-> FALSE,
     stdout |-> <<>>, stderr |-> <<>>, argv |-> <<>>, cwd |-> <<>>]

\* The exit status of a process ended by SIGKILL, and the exit statuses of a
\* command the call does not kill: success, failure, or ended by a signal
\* another process sent.
SigKilled == -9
ExitCodes == {0, 1, SigKilled}

\* What a command writes to its two streams, as bytes: "t" on stdout, the
\* two bytes of "ñ" on stderr, or a byte that is no UTF-8 on stdout.
Outputs ==
    {[stdout |-> <<116>>, stderr |-> <<>>],
     [stdout |-> <<>>, stderr |-> <<195, 177>>],
     [stdout |-> <<255>>, stderr |-> <<>>]}

\* bytes.decode(), strict UTF-8, for sequences of one- and two-byte forms:
\* <<>> when the bytes are no UTF-8, else <<the code points>>.
RECURSIVE decode(_)
decode(b) ==
    IF b = <<>> THEN << <<>> >>
    ELSE IF b[1] < 128
         THEN LET rest == decode(Tail(b))
              IN  IF rest = <<>> THEN <<>> ELSE << <<b[1]>> \o rest[1] >>
    ELSE IF b[1] >= 194 /\ b[1] <= 223 /\ Len(b) >= 2 /\ b[2] >= 128 /\ b[2] <= 191
         THEN LET rest == decode(Tail(Tail(b)))
              IN  IF rest = <<>> THEN <<>>
                  ELSE << <<(b[1] - 192) * 64 + (b[2] - 128)>> \o rest[1] >>
    ELSE <<>>

DecodeError == Exc("UnicodeDecodeError", <<"'utf-8' codec can't decode byte">>)

\* Lines 101-108: the result built once communicate() has returned, or the
\* exception decode() raises on the way.
communicate_result(p, command, shell, cwd) ==
    LET out == IF p.stdout # <<>> THEN decode(p.stdout) ELSE << <<>> >>
        err == IF p.stderr # <<>> THEN decode(p.stderr) ELSE << <<>> >>
    IN  IF out = <<>> \/ err = <<>>
        THEN outer_except(DecodeError, command, shell, cwd)
        ELSE Return(CommandResult(out[1], err[1], p.returncode[1], command, shell, cwd))

\* The subprocess transport is closed once the process has exited and both
\* pipes have reached end of file; kill() then raises ProcessLookupError.
transport_closed(p) == p.state = "exited" /\ p.pipes = "eof"

\* Line 112 with the error of a process already gone being one that line 114
\* does not catch.
kill_outcomes_gone_uncaught(p) ==
    IF p.state = "exited" THEN {"PermissionError"}
    ELSE {"sent", "PermissionError"}

\* What process.kill() can do at line 112.
kill_outcomes(p) ==
    IF transport_closed(p) THEN {"ProcessLookupError"}
    ELSE IF p.state = "exited" THEN {"no-op"}
    ELSE {"sent", "PermissionError"}

\* Line 113 left out: nothing waits for the killed process.
process_wait_skipped(p) == FALSE

\* Line 113: "await process.wait()" suspends while the exit status is not in.
process_wait_pending(p) == p.returncode = <<>>

\* ---------------------------------------------------------- call_tool ---
TextContent(text) == [type |-> "text", text |-> text]

\* str() of the result dict.
str_dict(r) ==
    <<"{'stdout': ", r.stdout, ", 'stderr': ", r.stderr, ", 'exit_code': ", r.exit_code,
      ", 'command': ", r.command, ", 'shell': ", r.shell, ", 'cwd': ", r.cwd, "}">>

\* Lines 179-183 without the try: the exception reaches the transport.
call_tool_reply_no_try(outcome) ==
    IF outcome.kind = "return"
    THEN <<TextContent(str_dict(outcome.value))>>
    ELSE <<>>

\* Lines 179-183: the blocks call_tool returns for an outcome of run_shell_command.
call_tool_reply(outcome) ==
    IF outcome.kind = "return"
    THEN <<TextContent(str_dict(outcome.value))>>
    ELSE <<TextContent(<<"Error: ">> \o str(outcome.value))>>

\* --------------------------------------------------------- list_tools ---
\* types.Tool(name, description, inputSchema) of lines 135-156, the shell
\* names of the description being `names`.
Tool(names) ==
    [name |-> "execute_command",
     description |->
         <<"Execute a shell command in a specified directory using a specified shell">>,
     inputSchema |->
         [type |-> "object",
          properties |->
              [command |-> [type |-> "string",
                            description |-> <<"The shell command to execute">>],
               shell |-> [type |-> "string",
                          description |->
                              <<"Shell to use for execution. Available: ", names>>],
               cwd |-> [type |-> "string",
                        description |-> <<"Working directory for command execution">>]],
          required |-> <<"command", "shell", "cwd">>]]

\* list_tools with the description built once, from the shells at start-up.
list_tools_startup(self) == <<Tool(keys(TestShells))>>

\* list_tools(): the list it returns.
list_tools(self) == <<Tool(keys(self.ALLOWED_SHELLS))>>

\* ------------------------------------------------------------- Init ---
\* No call of the set S has arrived yet.
Idle(S) ==
    /\ pc = [c \in S |-> "idle"]
    /\ request = [c \in S |-> <<>>]
    /\ proc = [c \in S |-> NoProcess]
    /\ returned = [c \in S |-> <<>>]
    /\ raised = [c \in S |-> <<>>]
    /\ response = [c \in S |-> <<>>]
    /\ escaped = [c \in S |-> <<>>]
    /\ elapsed = [c \in S |-> 0]

IdleCalls == Idle(Calls)

\* The server after start-up: settings built by Settings(directories, shells).
Init ==
    /\ platform \in Platforms
    /\ \E shells \in ShellConfigs :
           settings = Settings__init__(StartupDirectories, shells)
    /\ checked = <<>>
    /\ IdleCalls

\* --------------------------------------------------------- actions ---
\* run_shell_command of call c ends with `outcome`, and call_tool with it.
Finish(c, outcome) ==
    /\ pc' = [pc EXCEPT ![c] = "done"]
    /\ returned' = [returned EXCEPT ![c] =
                        IF outcome.kind = "return" THEN Append(@, outcome.value) ELSE @]
    /\ raised' = [raised EXCEPT ![c] =
                      IF outcome.kind = "raise" THEN Append(@, outcome.value) ELSE @]
    /\ response' = [response EXCEPT ![c] = call_tool_reply(outcome)]

\* Lines 175-177: the first of the three fields that `arguments` lacks.
missing_key(arguments) ==
    SelectSeq(Fields, LAMBDA f : f \notin DOMAIN arguments)

\* call_tool(name, arguments) up to its first suspension: the tool name, the
\* three fields, run_shell_command's policy checks and the launch.
Execute(c, name, arguments, types) ==
    /\ request' = [request EXCEPT ![c] =
           <<[name |-> name, arguments |-> arguments, types |-> types]>>]
    /\ IF name # "execute_command"
       THEN /\ pc' = [pc EXCEPT ![c] = "done"]
            /\ response' = [response EXCEPT ![c] =
                   <<TextContent(<<"Error: Unknown tool ", name>>)>>]
            /\ UNCHANGED <<proc, returned, raised, escaped>>
       ELSE IF missing_key(arguments) # <<>>
       THEN /\ pc' = [pc EXCEPT ![c] = "done"]
            /\ escaped' = [escaped EXCEPT ![c] =
                   Append(@, KeyError(missing_key(arguments)[1]))]
            /\ UNCHANGED <<proc, returned, raised, response>>
       ELSE LET command == arguments.command
                shell == arguments.shell
                cwd == arguments.cwd
                refused == policy_check_typed(settings, arguments, types)
            IN  /\ UNCHANGED escaped
                /\ IF refused # <<>>
                   THEN Finish(c, Raise(refused[1])) /\ UNCHANGED proc
                   ELSE IF types.command # "str"
                   THEN /\ Finish(c, outer_except(FspathError, command, shell, cwd))
                        /\ UNCHANGED proc
                   ELSE \/ /\ pc' = [pc EXCEPT ![c] = "communicate"]
                           /\ proc' = [proc EXCEPT ![c] =
                                  [NoProcess EXCEPT
                                     !.state = "running", !.pipes = "open",
                                     !.argv = shell_cmd(platform, shell,
                                                 getitem(settings.ALLOWED_SHELLS, shell),
                                                 command),
                                     !.cwd = cwd]]
                           /\ UNCHANGED <<returned, raised, response>>
                        \/ \E e \in LaunchErrors :
                              /\ Finish(c, outer_except(e, command, shell, cwd))
                              /\ UNCHANGED proc
    /\ UNCHANGED <<settings, platform, checked, elapsed>>

\* A request arrives as call c: any tool name, and arguments that hold the
\* three strings, lack one field, or hold a number in one.
CallTool(c) ==
    /\ pc[c] = "idle"
    /\ c > 1 => pc[c - 1] # "idle"
    /\ \E name \in ToolNames, a \in Arguments :
          \/ Execute(c, name, a, AllStr)
          \/ \E f \in DOMAIN AllStr :
                \/ Execute(c, name, Without(a, f), Without(AllStr, f))
                \/ Execute(c, name, [a EXCEPT ![f] = Number(f)],
                           [AllStr EXCEPT ![f] = "int"])

\* A request for the list of tools arrives as call c, and is answered.
ListTools(c) ==
    /\ pc[c] = "idle"
    /\ c > 1 => pc[c - 1] # "idle"
    /\ request' = [request EXCEPT ![c] =
           <<[name |-> "list_tools", arguments |-> <<>>, types |-> <<>>]>>]
    /\ pc' = [pc EXCEPT ![c] = "done"]
    /\ response' = [response EXCEPT ![c] = list_tools(settings)]
    /\ UNCHANGED <<settings, platform, checked, escaped, elapsed, proc, returned, raised>>

\* The arguments as one module-level variable, which the first call set.
Args_shared(c) == request[1][1].arguments

\* command, shell and cwd of call c: locals of its coroutine.
Args(c) == request[c][1].arguments

\* The subprocess of call c exits: by itself, or of the SIGKILL sent to it.
ProcExit(c) ==
    /\ proc[c].state = "running"
    /\ \E code \in IF proc[c].killed THEN {SigKilled} ELSE ExitCodes :
           proc' = [proc EXCEPT ![c].state = "exited", ![c].returncode = <<code>>]
    /\ UNCHANGED <<settings, platform, checked, escaped, elapsed, pc, request,
                 returned, raised, response>>

\* Both pipes of call c's subprocess reach end of file, with what was written.
PipesEOF(c) ==
    /\ proc[c].pipes = "open"
    /\ \E o \in Outputs :
           proc' = [proc EXCEPT ![c].pipes = "eof",
                                ![c].stdout = o.stdout, ![c].stderr = o.stderr]
    /\ UNCHANGED <<settings, platform, checked, escaped, elapsed, pc, request,
                 returned, raised, response>>

\* Lines 96-108: communicate() returns before the timeout; the result is built.
CommunicateReturns(c) ==
    /\ pc[c] = "communicate"
    /\ transport_closed(proc[c])
    /\ Finish(c, communicate_result(proc[c], Args(c).command, Args(c).shell, Args(c).cwd))
    /\ UNCHANGED <<settings, platform, checked, escaped, elapsed, request, proc>>

\* Line 110 with the handler writing to the settings: after a timeout the
\* next commands get half the time.
TimeoutFires_backoff(c) ==
    /\ pc[c] = "communicate"
    /\ pc' = [pc EXCEPT ![c] = "timeout"]
    /\ settings' = [settings EXCEPT !.COMMAND_TIMEOUT = @ \div 2]
    /\ UNCHANGED <<platform, checked, escaped, elapsed, request, proc,
                   returned, raised, response>>

\* Line 110: wait_for's timer fires first; communicate() is cancelled and
\* asyncio.TimeoutError raised, whatever the subprocess has done by then.
TimeoutFires(c) ==
    /\ pc[c] = "communicate"
    /\ pc' = [pc EXCEPT ![c] = "timeout"]
    /\ UNCHANGED <<settings, platform, checked, escaped, elapsed, request, proc,
                 returned, raised, response>>

\* Lines 111-116: the handler kills the subprocess and waits for it.
Kill(c) ==
    /\ pc[c] = "timeout"
    /\ \E k \in kill_outcomes(proc[c]) :
        LET timed_out == outer_except(TimedOutError(settings.COMMAND_TIMEOUT),
                                      Args(c).command, Args(c).shell, Args(c).cwd)
        IN  \/ /\ k = "ProcessLookupError"
               /\ Finish(c, timed_out)
               /\ UNCHANGED proc
            \/ /\ k = "PermissionError"
               /\ Finish(c, outer_except(KillError, Args(c).command, Args(c).shell,
                                         Args(c).cwd))
               /\ UNCHANGED proc
            \/ /\ k \in {"sent", "no-op"}
               /\ proc' = [proc EXCEPT ![c].killed = (k = "sent")]
               /\ IF process_wait_pending(proc[c])
                  THEN /\ pc' = [pc EXCEPT ![c] = "wait"]
                       /\ UNCHANGED <<returned, raised, response>>
                  ELSE Finish(c, timed_out)
    /\ UNCHANGED <<settings, platform, checked, escaped, elapsed, request>>

\* Lines 113-116: process.wait() returns, and TimeoutError is raised.
WaitReturns(c) ==
    /\ pc[c] = "wait"
    /\ proc[c].returncode # <<>>
    /\ Finish(c, outer_except(TimedOutError(settings.COMMAND_TIMEOUT),
                              Args(c).command, Args(c).shell, Args(c).cwd))
    /\ UNCHANGED <<settings, platform, checked, escaped, elapsed, request, proc>>

\* The owning process assigns settings.ALLOWED_SHELLS, as the tests' fixture does.
Reconfigure ==
    /\ \E shells \in ShellConfigs \ {settings.ALLOWED_SHELLS} :
           settings' = [settings EXCEPT !.ALLOWED_SHELLS = shells]
    /\ UNCHANGED <<platform, checked, escaped, elapsed, pc, request, proc,
                 returned, raised, response>>

Next ==
    \/ \E c \in Calls : CallTool(c)
    \/ \E c \in Calls : ListTools(c)
    \/ \E c \in Calls : ProcExit(c)
    \/ \E c \in Calls : PipesEOF(c)
    \/ \E c \in Calls : CommunicateReturns(c)
    \/ \E c \in Calls : TimeoutFires(c)
    \/ \E c \in Calls : Kill(c)
    \/ \E c \in Calls : WaitReturns(c)
    \/ Reconfigure

Spec == Init /\ [][Next]_vars

\* --------------------------------------- commands run concurrently ---
\* test_concurrent_commands: asyncio.gather of tasks, numbered from 1, each
\* running a command with bash in the allowed directory.
MaxGather == 2
Gathered == 1 .. MaxGather

\* The command of task i: a text of its own, so that an echo tells the tasks
\* apart.
gather_command(i) == <<"echo test", i>>

InitConcurrent ==
    /\ platform = "linux"
    /\ settings = Settings__init__(StartupDirectories, TestShells)
    /\ checked = <<>>
    /\ Idle(Gathered)

\* Task c starts: it runs up to its first suspension.
GatheredCall(c) ==
    /\ pc[c] = "idle"
    /\ c > 1 => pc[c - 1] # "idle"
    /\ Execute(c, "execute_command",
               [command |-> gather_command(c), shell |-> "bash",
                cwd |-> StartupDirectories[1]],
               AllStr)

NextConcurrent ==
    \/ \E c \in Gathered : GatheredCall(c)
    \/ \E c \in Gathered : ProcExit(c)
    \/ \E c \in Gathered : PipesEOF(c)
    \/ \E c \in Gathered : CommunicateReturns(c)
    \/ \E c \in Gathered : TimeoutFires(c)
    \/ \E c \in Gathered : Kill(c)
    \/ \E c \in Gathered : WaitReturns(c)

SpecConcurrent == InitConcurrent /\ [][NextConcurrent]_vars

\* ------------------------------------------ a call against the clock ---
\* Seconds the clock is followed past the timeout.
MaxOverrun == 1

\* A second passes while call c awaits communicate() under wait_for (its timer
\* is not yet due) or awaits process.wait() (no timer is set).
Tick(c) ==
    /\ pc[c] \in {"communicate", "wait"}
    /\ pc[c] = "communicate" => elapsed[c] < settings.COMMAND_TIMEOUT
    /\ elapsed[c] < settings.COMMAND_TIMEOUT + MaxOverrun
    /\ elapsed' = [elapsed EXCEPT ![c] = @ + 1]
    /\ UNCHANGED <<settings, platform, checked, escaped, pc, request, proc,
                   returned, raised, response>>

\* Line 98: wait_for's timer is due after settings.COMMAND_TIMEOUT seconds.
TimerFires(c) ==
    /\ elapsed[c] = settings.COMMAND_TIMEOUT
    /\ TimeoutFires(c)

NextTimed ==
    \/ \E c \in Calls : CallTool(c)
    \/ \E c \in Calls : ProcExit(c)
    \/ \E c \in Calls : PipesEOF(c)
    \/ \E c \in Calls : CommunicateReturns(c)
    \/ \E c \in Calls : Tick(c)
    \/ \E c \in Calls : TimerFires(c)
    \/ \E c \in Calls : Kill(c)
    \/ \E c \in Calls : WaitReturns(c)

\* The event loop runs every callback that is ready and its clock advances;
\* the kernel ends a process that was sent SIGKILL.  A command by itself
\* need not exit, and need not close its streams.
FairTimed ==
    \A c \in Calls :
        /\ WF_vars(Tick(c))
        /\ WF_vars(TimerFires(c))
        /\ WF_vars(CommunicateReturns(c))
        /\ WF_vars(Kill(c))
        /\ WF_vars(WaitReturns(c))
        /\ WF_vars(proc[c].killed /\ ProcExit(c))

SpecTimed == Init /\ [][NextTimed]_vars /\ FairTimed

\* ------------------------------------- the directory check by itself ---
\* Settings(directories, shells) for every list of directories in the bounds.
InitPolicy ==
    /\ platform = "linux"
    /\ \E directories \in SeqsUpTo(PathsUpTo(MaxDirDepth), MaxDirs) :
           settings = Settings__init__(directories, TestShells)
    /\ checked = <<>>
    /\ IdleCalls

\* settings.is_path_allowed(path) is called, once, and its answer kept.
IsPathAllowed ==
    /\ checked = <<>>
    /\ \E path \in PathsUpTo(MaxDepth) :
           checked' = <<[path |-> path, result |-> is_path_allowed(settings, path)]>>
    /\ UNCHANGED <<settings, platform, escaped, elapsed, pc, request, proc,
                 returned, raised, response>>

NextPolicy == IsPathAllowed

SpecPolicy == InitPolicy /\ [][NextPolicy]_vars

\* ------------------------------------------- containment, canonical ---
\* Path a is path b or an ancestor of b, component by component.
IsPrefixSeq(a, b) == Len(a) <= Len(b) /\ SubSeq(b, 1, Len(a)) = a

\* The components of an absolute path text.
comps_of(text) == normpath(<<>>, split(text, 1, <<>>))

\* The path (as components) is an allowed directory or lies below one.
Under(comps, self) ==
    \E i \in DOMAIN self.ALLOWED_DIRECTORIES :
        IsPrefixSeq(comps_of(self.ALLOWED_DIRECTORIES[i]), comps)

\* The file system holds one symbolic link: /p/l -> /l.
readlink(comps) == IF comps = <<NameP, NameL>> THEN <<NameL>> ELSE comps

\* The canonical path: each component resolved in turn, a symbolic link
\* followed, ".." taken from the resolved directory.
RECURSIVE realpath_comps(_, _)
realpath_comps(resolved, comps) ==
    IF comps = <<>> THEN resolved
    ELSE LET comp == Head(comps)
         IN  IF comp = <<>> \/ comp = Dot THEN realpath_comps(resolved, Tail(comps))
             ELSE IF comp = DotDot
             THEN realpath_comps(IF resolved = <<>> THEN <<>> ELSE Front(resolved),
                                 Tail(comps))
             ELSE realpath_comps(readlink(Append(resolved, comp)), Tail(comps))

canonical(path) ==
    LET isabs == path # <<>> /\ path[1] = "/"
        joined == IF isabs THEN path ELSE Getcwd \o <<"/">> \o path
    IN  realpath_comps(<<>>, split(joined, 1, <<>>))

\* The canonical path lies in or below the canonical place of an allowed directory.
CanonicalUnder(path, self) ==
    \E i \in DOMAIN self.ALLOWED_DIRECTORIES :
        IsPrefixSeq(canonical(self.ALLOWED_DIRECTORIES[i]), canonical(path))

\* ------------------------------------------------------------ claims ---
\* C1: a path that resolves to neither an allowed directory nor a descendant
\* of one is refused by is_path_allowed, a sibling directory whose name
\* starts with an allowed directory's name included (/p2 beside /p).
C1_NotUnderIsRefused ==
    checked # <<>> /\ ~Under(abspath_comps(checked[1].path), settings)
        => checked[1].result = FALSE

\* C2: a path that is an allowed directory or a descendant of one, at any
\* depth, is accepted by is_path_allowed.
C2_UnderIsAllowed ==
    checked # <<>> /\ Under(abspath_comps(checked[1].path), settings)
        => checked[1].result = TRUE

\* C2's case: a path two levels below an allowed directory other than the
\* root has been checked.
C2_Witness ==
    /\ checked # <<>>
    /\ \E i \in DOMAIN settings.ALLOWED_DIRECTORIES :
          LET d == comps_of(settings.ALLOWED_DIRECTORIES[i])
              q == abspath_comps(checked[1].path)
          IN  d # <<>> /\ IsPrefixSeq(d, q) /\ Len(q) = Len(d) + 2
    /\ checked[1].result = TRUE

\* C3: the check decides on the canonical path: a path whose text lies below
\* an allowed directory and whose canonical place (symbolic links and ".."
\* resolved) lies outside every allowed directory is refused.
C3_CanonicalOutsideIsRefused ==
    /\ checked # <<>>
    /\ Under(abspath_comps(checked[1].path), settings)
    /\ ~CanonicalUnder(checked[1].path, settings)
    => checked[1].result = FALSE

\* A call of the tool execute_command with its three string fields.
IsExecute(r) ==
    /\ r # <<>>
    /\ r[1].name = "execute_command"
    /\ DOMAIN r[1].types = DOMAIN AllStr
    /\ \A f \in DOMAIN AllStr : r[1].types[f] = "str"

\* The error of line 116.
IsTimedOut(e) ==
    /\ e.type = "TimeoutError"
    /\ e.message[1] = "Command execution timed out after "

\* The step in which call c enters run_shell_command.
Enters(c) == pc[c] = "idle" /\ pc'[c] # "idle" /\ IsExecute(request'[c])

\* C4: a request whose working directory is_path_allowed refuses spawns no
\* subprocess, whatever its shell and command, neither then nor later, and
\* fails with a ValueError saying the directory is not in the allowed
\* directories list.
C4_RefusedDirectoryNeverSpawns ==
    /\ [][\A c \in Calls :
            Enters(c) /\ ~is_path_allowed(settings, request'[c][1].arguments.cwd)
            => /\ pc'[c] = "done"
               /\ proc'[c].state = "none"
               /\ returned'[c] = <<>>
               /\ Len(raised'[c]) = 1
               /\ raised'[c][1].type = "ValueError"
               /\ raised'[c][1].message =
                      <<"Directory '", request'[c][1].arguments.cwd,
                        "' is not in the allowed directories list">>]_vars
    /\ [](\A c \in Calls :
            raised[c] # <<>> /\ raised[c][1].message[1] = "Directory '"
            => proc[c].state = "none")

\* C4's case: a call has failed with the directory error.
C4_Witness ==
    \E c \in Calls :
        /\ pc[c] = "done" /\ IsExecute(request[c])
        /\ raised[c] # <<>> /\ raised[c][1].message[1] = "Directory '"
        /\ ~is_path_allowed(settings, request[c][1].arguments.cwd)

\* C5 as stated: every request whose shell is no key of the shell map spawns
\* no subprocess and fails with the error listing the configured shells.
C5_UnknownShellListsShells ==
    [][\A c \in Calls :
          Enters(c) /\ ~contains(settings.ALLOWED_SHELLS, request'[c][1].arguments.shell)
          => /\ pc'[c] = "done"
             /\ proc'[c].state = "none"
             /\ returned'[c] = <<>>
             /\ Len(raised'[c]) = 1
             /\ raised'[c][1].type = "ValueError"
             /\ raised'[c][1].message[1] = "Shell '"
             /\ raised'[c][1].message[4] = keys(settings.ALLOWED_SHELLS)]_vars

\* C5, amended: a request whose working directory is allowed and whose shell
\* is no key of the shell map spawns no subprocess, then or later, and fails
\* with a ValueError that lists exactly the shell names configured when it
\* was made; with a refused directory it spawns nothing either.
C5_AllowedDirectoryUnknownShellListsShells ==
    /\ [][\A c \in Calls :
            Enters(c) /\ ~contains(settings.ALLOWED_SHELLS, request'[c][1].arguments.shell)
            => /\ pc'[c] = "done"
               /\ proc'[c].state = "none"
               /\ returned'[c] = <<>>
               /\ Len(raised'[c]) = 1
               /\ raised'[c][1].type = "ValueError"
               /\ is_path_allowed(settings, request'[c][1].arguments.cwd)
                  => raised'[c][1].message =
                        <<"Shell '", request'[c][1].arguments.shell,
                          "' is not allowed. Available shells: ",
                          keys(settings.ALLOWED_SHELLS)>>]_vars
    /\ [](\A c \in Calls :
            raised[c] # <<>> /\ raised[c][1].message[1] = "Shell '"
            => proc[c].state = "none")

\* C5's case: a call has failed with the shell error, and the shell map has
\* been replaced since: the names listed are no longer the configured ones.
C5_Witness ==
    \E c \in Calls :
        /\ pc[c] = "done" /\ IsExecute(request[c])
        /\ raised[c] # <<>> /\ raised[c][1].message[1] = "Shell '"
        /\ raised[c][1].message[4] # keys(settings.ALLOWED_SHELLS)

\* The dict is a CommandResult: the six fields, an integer exit code.
IsCommandResult(r) ==
    /\ DOMAIN r = {"stdout", "stderr", "exit_code", "command", "shell", "cwd"}
    /\ r.exit_code \in Int

\* C6: once the timeout has fired with the subprocess not yet waited and
\* drained, the call ends in the TimedOut error and returns no CommandResult,
\* whatever the kill and the wait do.
C6_TimeoutAlwaysRaises ==
    [][\A c \in Calls :
          /\ pc[c] \in {"timeout", "wait"}
          /\ pc[c] = "wait" \/ ~transport_closed(proc[c])
          /\ pc'[c] = "done"
          => /\ returned'[c] = <<>>
             /\ Len(raised'[c]) = 1
             /\ IsTimedOut(raised'[c][1])]_vars

\* C7: the caller sees the TimedOut error only once the subprocess has
\* exited and its exit status has been collected; none is left running.
C7_TimedOutOnlyAfterReaped ==
    \A c \in Calls :
        raised[c] # <<>> /\ IsTimedOut(raised[c][1])
        => /\ proc[c].state = "exited"
           /\ proc[c].returncode # <<>>

\* C7's case: a call has timed out, its subprocess was killed while running
\* and the wait has collected the kill.
C7_Witness ==
    \E c \in Calls :
        /\ raised[c] # <<>> /\ IsTimedOut(raised[c][1])
        /\ proc[c].killed
        /\ proc[c].returncode = <<SigKilled>>

\* C8: for a request that passes both policy checks, a failed launch makes
\* run_shell_command return the result with empty stdout, the failure text
\* in stderr and exit code -1; nothing is raised.
C8_LaunchFailureIsSoft ==
    [][\A c \in Calls :
          /\ Enters(c)
          /\ policy_check(settings, request'[c][1].arguments.shell,
                          request'[c][1].arguments.cwd) = <<>>
          /\ pc'[c] = "done"
          => /\ raised'[c] = <<>>
             /\ Len(returned'[c]) = 1
             /\ returned'[c][1].stdout = <<>>
             /\ returned'[c][1].exit_code = -1
             /\ \E e \in LaunchErrors : returned'[c][1].stderr = e.message]_vars

\* C9: a completed call of run_shell_command has produced exactly one
\* outcome, a CommandResult or an error that is a policy violation
\* (ValueError) or a timeout (TimeoutError); a call not completed has
\* produced none.
C9_ExactlyOneOutcome ==
    \A c \in Calls :
        /\ pc[c] # "done" => returned[c] = <<>> /\ raised[c] = <<>>
        /\ pc[c] = "done" /\ IsExecute(request[c])
           => /\ Len(returned[c]) + Len(raised[c]) = 1
              /\ \A i \in DOMAIN returned[c] : IsCommandResult(returned[c][i])
              /\ \A i \in DOMAIN raised[c] :
                    raised[c][i].type \in {"ValueError", "TimeoutError"}

\* C9's case: a call whose launch failed has completed with the one result
\* of exit code -1.
C9_Witness ==
    \E c \in Calls :
        /\ pc[c] = "done" /\ IsExecute(request[c])
        /\ proc[c].state = "none"
        /\ Len(returned[c]) = 1 /\ raised[c] = <<>>
        /\ returned[c][1].exit_code = -1

\* C10: call_tool, for an execute_command call with its three string fields,
\* returns exactly one text block and raises nothing; the text begins with
\* "Error: " exactly when run_shell_command raised (policy violation or
\* timeout), and is otherwise the printed CommandResult, the one of exit code
\* -1 included.
C10_OneTextBlock ==
    \A c \in Calls :
        /\ pc[c] # "done" => response[c] = <<>>
        /\ pc[c] = "done" /\ IsExecute(request[c])
           => /\ Len(response[c]) = 1
              /\ response[c][1].type = "text"
              /\ (response[c][1].text[1] = "Error: ") <=> (raised[c] # <<>>)
              /\ raised[c] # <<>>
                 => /\ raised[c][1].type \in {"ValueError", "TimeoutError"}
                    /\ SubSeq(response[c][1].text, 2, Len(response[c][1].text))
                           = raised[c][1].message
              /\ raised[c] = <<>>
                 => LET r == returned[c][1]
                        t == response[c][1].text
                    IN  /\ t[1] = "{'stdout': " /\ t[2] = r.stdout
                        /\ t[3] = ", 'stderr': " /\ t[4] = r.stderr
                        /\ t[5] = ", 'exit_code': " /\ t[6] = r.exit_code
                        /\ t[7] = ", 'command': " /\ t[8] = r.command
                        /\ t[9] = ", 'shell': " /\ t[10] = r.shell

\* C10's case: a call has ended in the result of exit code -1 and call_tool
\* has answered with its text, which does not begin with "Error: ".
C10_Witness ==
    \E c \in Calls :
        /\ pc[c] = "done" /\ IsExecute(request[c])
        /\ returned[c] # <<>> /\ returned[c][1].exit_code = -1
        /\ Len(response[c]) = 1
        /\ response[c][1].text[1] # "Error: "

\* A call of the tool execute_command in which one of the three fields is
\* missing or is no string.
IsMalformed(r) ==
    /\ r # <<>>
    /\ r[1].name = "execute_command"
    /\ ~IsExecute(r)

\* C11: for an execute_command call in which one of command, shell, cwd is
\* missing or is no string, call_tool raises nothing and returns one error
\* text, no printed CommandResult; run_shell_command is not entered, so that
\* neither the policy checks nor a launch are reached.
C11_MalformedIsErrorText ==
    \A c \in Calls :
        pc[c] = "done" /\ IsMalformed(request[c])
        => /\ escaped[c] = <<>>
           /\ Len(response[c]) = 1
           /\ response[c][1].text[1] = "Error: "
           /\ returned[c] = <<>>
           /\ raised[c] = <<>>
           /\ proc[c].state = "none"

\* What call c holds by itself: its position, request, subprocess, outcome.
OwnState(c) ==
    <<pc[c], request[c], proc[c], returned[c], raised[c], response[c], escaped[c]>>

\* C12: of the calls run at once, under every interleaving of their steps,
\* each result echoes the command, shell and cwd of its own call and carries
\* the exit code and the decoded output of the subprocess that call spawned;
\* and a step of one call (spawn, drain, exit, timeout, kill) changes nothing
\* another call holds.
C12_CallsAreIsolated ==
    /\ [](\A c \in Gathered :
            returned[c] # <<>>
            => LET r == returned[c][1]
               IN  /\ r.command = gather_command(c)
                   /\ r.shell = request[c][1].arguments.shell
                   /\ r.cwd = request[c][1].arguments.cwd
                   /\ r.exit_code # -1
                      => /\ proc[c].returncode = <<r.exit_code>>
                         /\ decode(proc[c].stdout) = <<r.stdout>>
                         /\ decode(proc[c].stderr) = <<r.stderr>>)
    /\ [][\A c \in Gathered :
            OwnState(c)' # OwnState(c)
            => \A d \in Gathered \ {c} : OwnState(d)' = OwnState(d)]_vars

\* C12's case: two calls ran at once; the first timed out and its subprocess
\* was killed, the second returned the exit code and the output of its own
\* subprocess, which wrote something else than the first.
C12_Witness ==
    /\ pc[1] = "done" /\ pc[2] = "done"
    /\ raised[1] # <<>> /\ IsTimedOut(raised[1][1]) /\ proc[1].killed
    /\ returned[2] # <<>> /\ returned[2][1].exit_code = 0
    /\ returned[2][1].stdout # <<>>
    /\ proc[1].stdout # proc[2].stdout
    /\ returned[2][1].command = gather_command(2)

\* Call c is inside run_shell_command, past the launch.
InFlight(c) == pc[c] \in {"communicate", "timeout", "wait"}

\* C13: every call completes, with a result or an error, also when the
\* command never exits or never closes its streams, and the seconds spent in
\* it, the draining and the wait after the kill counted, never exceed
\* settings.COMMAND_TIMEOUT.
C13_CompletesWithinTimeout ==
    /\ \A c \in Calls : InFlight(c) ~> pc[c] = "done"
    /\ [](\A c \in Calls : elapsed[c] <= settings.COMMAND_TIMEOUT)

\* The first half of C13 by itself: every call in flight completes.
C13_EveryCallCompletes ==
    \A c \in Calls : InFlight(c) ~> pc[c] = "done"

\* A step of request processing: a call arrives, moves on or ends, or its
\* subprocess changes.
ProcessingStep == \E c \in Calls : pc'[c] # pc[c] \/ proc'[c] # proc[c]

\* C14: no step of call_tool, list_tools or run_shell_command, whatever the
\* outcome, changes the policy configuration: the allowed directories, the
\* shell map and the command timeout are after it what they were before.
C14_ProcessingLeavesSettings ==
    [][ProcessingStep
       => /\ settings'.ALLOWED_DIRECTORIES = settings.ALLOWED_DIRECTORIES
          /\ settings'.ALLOWED_SHELLS = settings.ALLOWED_SHELLS
          /\ settings'.COMMAND_TIMEOUT = settings.COMMAND_TIMEOUT]_vars

\* C14's case: a call has gone through the timeout, the kill and the wait, and
\* the settings hold the directories and the timeout of the start.
C14_Witness ==
    \E c \in Calls :
        /\ pc[c] = "done" /\ IsExecute(request[c])
        /\ raised[c] # <<>> /\ IsTimedOut(raised[c][1])
        /\ proc[c].killed
        /\ settings.COMMAND_TIMEOUT = COMMAND_TIMEOUT
        /\ settings.ALLOWED_DIRECTORIES = <<abspath(StartupDirectories[1])>>

\* C15: when the subprocess has exited and its streams are drained before the
\* timeout, run_shell_command raises nothing and returns a CommandResult
\* whose exit code is the process's own (zero, positive or that of a signal)
\* and whose stdout and stderr carry what was captured: the decoded text where
\* the bytes are UTF-8, and some text, not nothing, where they are not.
C15_ResultCarriesExitCodeAndOutput ==
    [][\A c \in Calls :
          pc[c] = "communicate" /\ pc'[c] = "done"
          => /\ raised'[c] = <<>>
             /\ Len(returned'[c]) = 1
             /\ returned'[c][1].exit_code = proc[c].returncode[1]
             /\ decode(proc[c].stdout) # <<>>
                => returned'[c][1].stdout = decode(proc[c].stdout)[1]
             /\ decode(proc[c].stderr) # <<>>
                => returned'[c][1].stderr = decode(proc[c].stderr)[1]
             /\ proc[c].stdout # <<>> => returned'[c][1].stdout # <<>>
             /\ proc[c].stderr # <<>> => returned'[c][1].stderr # <<>>]_vars

\* The flag a shell takes by what it is: the Windows command interpreter /c,
\* PowerShell -Command, a POSIX shell -c.
flag_of(shell) ==
    IF shell = "cmd" THEN "/c"
    ELSE IF shell = "powershell" THEN "-Command"
    ELSE "-c"

\* C16: the subprocess is launched with the vector [shell executable, flag,
\* command], the flag being the one the shell takes by what it is, on every
\* platform, and the command one argument, unchanged.
C16_FlagFollowsShell ==
    [][\A c \in Calls :
          Enters(c) /\ proc'[c].state = "running"
          => proc'[c].argv =
                <<getitem(settings.ALLOWED_SHELLS, request'[c][1].arguments.shell),
                  flag_of(request'[c][1].arguments.shell),
                  request'[c][1].arguments.command>>]_vars

\* C17: when the timer has fired and the subprocess has already exited at the
\* kill, the handler's next step ends the call with the TimedOut error: the
\* ProcessLookupError of a process already gone is swallowed, no other error
\* and no CommandResult come out.
C17_GoneProcessStillTimesOut ==
    [][\A c \in Calls :
          pc[c] = "timeout" /\ proc[c].state = "exited" /\ pc'[c] # "timeout"
          => /\ pc'[c] = "done"
             /\ returned'[c] = <<>>
             /\ raised'[c] = <<TimedOutError(settings.COMMAND_TIMEOUT)>>
             /\ response'[c] =
                   <<TextContent(<<"Error: ">>
                                 \o str(TimedOutError(settings.COMMAND_TIMEOUT)))>>
             /\ proc'[c] = proc[c]]_vars

\* C17's case: a call has timed out although its subprocess had exited by
\* itself, streams at end of file, and was never sent the kill.
C17_Witness ==
    \E c \in Calls :
        /\ pc[c] = "done"
        /\ raised[c] # <<>> /\ IsTimedOut(raised[c][1])
        /\ proc[c].state = "exited" /\ proc[c].pipes = "eof"
        /\ ~proc[c].killed
        /\ proc[c].returncode = <<0>>

\* The request asks for the list of tools.
IsList(r) == r # <<>> /\ r[1].name = "list_tools"

\* run_shell_command accepts the shell name: in an allowed directory no
\* policy check refuses it.
accepts(self, shell) ==
    \E i \in DOMAIN self.ALLOWED_DIRECTORIES :
        policy_check(self, shell, self.ALLOWED_DIRECTORIES[i]) = <<>>

\* The shell names a tool's schema advertises.
advertised(tool) ==
    LET names == tool.inputSchema.properties.shell.description[2]
    IN  {names[i] : i \in DOMAIN names}

\* C18: list_tools answers with exactly one tool, execute_command, whose
\* schema has and requires the three string fields command, shell and cwd, and
\* the shell names it advertises are exactly those run_shell_command accepts
\* under the settings of that moment, whatever the shell map has been set to.
C18_ListAdvertisesAcceptedShells ==
    [][\A c \in Calls :
          pc[c] = "idle" /\ IsList(request'[c])
          => /\ pc'[c] = "done"
             /\ Len(response'[c]) = 1
             /\ LET tool == response'[c][1]
                    schema == tool.inputSchema
                IN  /\ tool.name = "execute_command"
                    /\ schema.type = "object"
                    /\ schema.required = <<"command", "shell", "cwd">>
                    /\ DOMAIN schema.properties = {"command", "shell", "cwd"}
                    /\ \A f \in DOMAIN schema.properties :
                          schema.properties[f].type = "string"
                    /\ advertised(tool) \subseteq ShellNames
                    /\ \A shell \in ShellNames :
                          shell \in advertised(tool) <=> accepts(settings, shell)]_vars

\* C18's case: the list was answered with the Windows shells, and the shell
\* map has been replaced since: the names advertised then are not those
\* accepted now.
C18_Witness ==
    \E c \in Calls :
        /\ pc[c] = "done" /\ IsList(request[c])
        /\ Len(response[c]) = 1
        /\ advertised(response[c][1]) = {"cmd", "powershell"}
        /\ \E shell \in advertised(response[c][1]) : ~accepts(settings, shell)

\* C19: the directory check comes before the shell check: a request whose
\* directory is refused fails with the directory error, its shell unknown or
\* not, and the shell map is not consulted: the outcome is the same under
\* every shell map, the empty one included.
C19_DirectoryCheckFirst ==
    [][\A c \in Calls :
          Enters(c) /\ ~is_path_allowed(settings, request'[c][1].arguments.cwd)
          => LET shell == request'[c][1].arguments.shell
                 cwd == request'[c][1].arguments.cwd
             IN  /\ raised'[c] = <<DirectoryError(cwd)>>
                 /\ response'[c] =
                       <<TextContent(<<"Error: ">> \o str(DirectoryError(cwd)))>>
                 /\ \A shells \in ShellConfigs \cup {<<>>} :
                       policy_check([settings EXCEPT !.ALLOWED_SHELLS = shells],
                                    shell, cwd) = raised'[c]]_vars

\* C19's case: a call with a refused directory and a shell that is no key of
\* the shell map has failed with the directory error.
C19_Witness ==
    \E c \in Calls :
        /\ pc[c] = "done" /\ IsExecute(request[c])
        /\ ~is_path_allowed(settings, request[c][1].arguments.cwd)
        /\ \A shells \in ShellConfigs :
              ~contains(shells, request[c][1].arguments.shell)
        /\ raised[c] = <<DirectoryError(request[c][1].arguments.cwd)>>

====
